---- MODULE Spec2Model ----
(***************************************************************************)
(* shli: escape-aware tokenizer (split.rs / parse.rs), command-tree        *)
(* completion (completion.rs) and the interactive line editor (prompt.rs). *)
(*                                                                         *)
(* Text is a sequence of one-character strings.  Five specifications       *)
(* share the definitions:                                                  *)
(*   SpecSplit     the scanner loop of split, one character per step       *)
(*   SpecComplete  complete(previous, commands) applied to bounded inputs  *)
(*   Spec          Prompt::read_commandline over several reads             *)
(*   SpecTab       Prompt::read_commandline, one read, quoting alphabet    *)
(*   SpecScreen    Prompt::read_commandline, one read, terminal observed   *)
(***************************************************************************)
EXTENDS Integers, Sequences, FiniteSets, TLC

VARIABLES
    \* --- split (split.rs:103-141) ---
    cmdline,        \* the argument of split
    idx,            \* number of characters of cmdline consumed by the for loop
    parts,          \* Vec<String> of finished words
    act,            \* the word being accumulated
    state,          \* EscapingState
    splitpc,        \* "off" | "scan" | "done"
    \* --- complete (completion.rs:129-172) ---
    previous,       \* the text handed to complete
    completion_result, \* CompletionResult, [kind |-> "pending"] before the call
    \* --- Prompt (prompt.rs) ---
    commands,       \* Prompt.commands / the grammar handed to complete
    history,        \* Prompt.history
    history0,       \* Prompt.history as the current read found it
    pc,             \* "Idle" | "Prompting" | "Editing" | "Returned" | "Panicked" | "off"
    raw,            \* the terminal is in raw mode
    line,           \* text left of the cursor
    right_line,     \* text right of the cursor
    history_offset, \* 0 = not browsing
    terminal,       \* the terminal's current line and cursor column, as written
    outcome,        \* what read_commandline returned, and the event that ended it
    navKeys         \* how many keys of the sequence Up, Up, Down this read has
                    \* consumed so far as its only keys; -1 once it deviated

splitVars == <<cmdline, idx, parts, act, state, splitpc>>
completeVars == <<previous, completion_result>>
promptVars == <<history, history0, pc, raw, line, right_line, history_offset, terminal,
                outcome,
                navKeys>>
vars == <<splitVars, completeVars, commands, promptVars>>

----------------------------------------------------------------------------
(* Bounds *)

MaxLen == 4          \* longest text enumerated for split
MaxText == 4         \* longest text enumerated for complete
MaxLine == 1         \* longest line typed in Spec
MaxHistory == 3      \* Spec starts a read while the history is shorter
MaxScreenLine == 3   \* SpecScreen: characters of left + right
MaxTabLine == 6      \* longest line typed in SpecTab

Strs(C, n) == UNION {[1..k -> C] : k \in 0..n}

----------------------------------------------------------------------------
(* EscapingState, split.rs:17-94 *)

EscapingState_new ==
    [single_quote |-> FALSE, double_quote |-> FALSE, backslash |-> FALSE]

\* char::is_whitespace, restricted to the whitespace characters of the alphabets
is_whitespace(ch) == ch \in {" ", "\t"}

\* a plausible slip: a backslash does not protect the whitespace after it
whitespace_escaped_quotes(st) == st.single_quote \/ st.double_quote

whitespace_escaped(st) == st.single_quote \/ st.double_quote \/ st.backslash

\* a plausible slip: a backslash does not protect the double quote after it
doublequote_escaped_quote(st) == st.single_quote

doublequote_escaped(st) == st.single_quote \/ st.backslash

\* a plausible slip: an open double quote does not protect the single quote
singlequote_escaped_backslash(st) == st.backslash

singlequote_escaped(st) == st.double_quote \/ st.backslash

\* a plausible slip: "inside either quote" instead of "double quote or backslash"
backslash_escaped_quotes(st) == st.double_quote \/ st.single_quote

backslash_escaped(st) == st.double_quote \/ st.backslash

step(st, ch) ==
    LET q == IF ch = "\"" /\ ~doublequote_escaped(st)
                THEN [st EXCEPT !.double_quote = ~st.double_quote]
             ELSE IF ch = "'" /\ ~singlequote_escaped(st)
                THEN [st EXCEPT !.single_quote = ~st.single_quote]
             ELSE st
    IN  IF q.backslash THEN [q EXCEPT !.backslash = FALSE]
        ELSE IF ch = "\\" THEN [q EXCEPT !.backslash = TRUE]
        ELSE q

RECURSIVE process_from(_, _, _)
process_from(st, s, i) ==
    IF i > Len(s) THEN st ELSE process_from(step(st, s[i]), s, i + 1)

process(s) == process_from(EscapingState_new, s, 1)

----------------------------------------------------------------------------
(* split, split.rs:103-141 (parse.rs:103-139 is the same function, used by
   completion.rs).  A scanner is [parts, act, state]. *)

ScannerNew == [parts |-> <<>>, act |-> <<>>, state |-> EscapingState_new]

\* is the character pushed onto act (split.rs:116-133)
Emits(st, ch) ==
    CASE ch = "\"" -> doublequote_escaped(st)
      [] ch = "'"  -> singlequote_escaped(st)
      [] ch = "\\" -> backslash_escaped(st)
      [] OTHER     -> TRUE

\* a plausible slip: a boundary closes a word even when none was begun
SplitCharPushEmpty(sc, ch) ==
    IF ~whitespace_escaped(sc.state) /\ is_whitespace(ch)
    THEN [sc EXCEPT !.parts = Append(sc.parts, sc.act), !.act = <<>>]
    ELSE [sc EXCEPT !.act = IF Emits(sc.state, ch) THEN Append(sc.act, ch) ELSE sc.act,
                    !.state = step(sc.state, ch)]

\* one iteration of the for loop (split.rs:107-135)
SplitChar(sc, ch) ==
    IF ~whitespace_escaped(sc.state) /\ is_whitespace(ch)
    THEN IF sc.act # <<>>
         THEN [sc EXCEPT !.parts = Append(sc.parts, sc.act), !.act = <<>>]
         ELSE sc
    ELSE [sc EXCEPT !.act = IF Emits(sc.state, ch) THEN Append(sc.act, ch) ELSE sc.act,
                    !.state = step(sc.state, ch)]

\* a plausible slip: the last word is not flushed
SplitFinishNoFlush(sc) == sc.parts

\* after the loop (split.rs:137-140)
SplitFinish(sc) == IF sc.act # <<>> THEN Append(sc.parts, sc.act) ELSE sc.parts

RECURSIVE SplitFrom(_, _, _)
SplitFrom(sc, s, i) ==
    IF i > Len(s) THEN SplitFinish(sc) ELSE SplitFrom(SplitChar(sc, s[i]), s, i + 1)

split(s) == SplitFrom(ScannerNew, s, 1)

ends_with_whitespace(text) == text # <<>> /\ is_whitespace(text[Len(text)])

----------------------------------------------------------------------------
(* Command grammar, completion.rs:3-90 *)

ArbitraryArgument(n) == [kind |-> "ArbitraryArgument", name |-> n, arguments |-> <<>>]

\* Flag with its mandatory arguments (completion.rs:16-19)
FlagWith(n, arguments) == [kind |-> "Flag", name |-> n, arguments |-> arguments]

\* Flag::new (completion.rs:22-27)
Flag(n) == FlagWith(n, <<>>)

\* Command { name, args, subcommands } (completion.rs:57-61)
Command(n, args, subcommands) == [name |-> n, args |-> args, subcommands |-> subcommands]

(* CompletionResult, completion.rs:86-90; "panic" is the unwinding of a failed
   unwrap, which is no value of the enum *)
ResultNone == [kind |-> "None", text |-> "", words |-> <<>>]
Description(t) == [kind |-> "Description", text |-> t, words |-> <<>>]
PossibilityList(ws) == [kind |-> "PossibilityList", text |-> "", words |-> ws]
Panic == [kind |-> "panic", text |-> "", words |-> <<>>]
Pending == [kind |-> "pending", text |-> "", words |-> <<>>]

\* a plausible slip: the names are collected newest first
command_names_reversed(cmds) == [i \in 1..Len(cmds) |-> cmds[Len(cmds) + 1 - i].name]

\* command_names, completion.rs:92-98
command_names(cmds) == [i \in 1..Len(cmds) |-> cmds[i].name]

(* active_command, completion.rs:100-111: the index in cmds of the command the
   last matching (component, command) pair names, 0 for None.  Only the slice
   handed in is searched. *)
RECURSIVE ActiveInner(_, _, _, _)
ActiveInner(component, cmds, j, result) ==
    IF j > Len(cmds) THEN result
    ELSE ActiveInner(component, cmds, j + 1,
                     IF component = cmds[j].name THEN j ELSE result)

\* a plausible slip: the first matching component is kept
RECURSIVE ActiveOuterFirst(_, _, _, _)
ActiveOuterFirst(components, cmds, i, result) ==
    IF i > Len(components) THEN result
    ELSE ActiveOuterFirst(components, cmds, i + 1,
                          IF result # 0 THEN result
                          ELSE ActiveInner(components[i], cmds, 1, result))

RECURSIVE ActiveOuter(_, _, _, _)
ActiveOuter(components, cmds, i, result) ==
    IF i > Len(components) THEN result
    ELSE ActiveOuter(components, cmds, i + 1,
                     ActiveInner(components[i], cmds, 1, result))

active_command(components, cmds) == ActiveOuter(components, cmds, 1, 0)

\* a plausible slip: only the first declared argument is looked at
get_possible_completions_first(cmd) ==
    IF cmd.args # <<>> /\ cmd.args[1].kind = "ArbitraryArgument"
    THEN Description("Various artists")
    ELSE PossibilityList([i \in 1..Len(cmd.args) |-> cmd.args[i].name]
                         \o [i \in 1..Len(cmd.subcommands) |-> cmd.subcommands[i].name])

\* get_possible_completions, completion.rs:113-127
get_possible_completions(cmd) ==
    IF \E i \in 1..Len(cmd.args) : cmd.args[i].kind = "ArbitraryArgument"
    THEN Description("Various artists")
    ELSE PossibilityList([i \in 1..Len(cmd.args) |-> cmd.args[i].name]
                         \o command_names(cmd.subcommands))

\* a plausible slip: the receiver and the argument of starts_with are swapped
starts_with_swapped(w, prefix) ==
    Len(w) <= Len(prefix) /\ SubSeq(prefix, 1, Len(w)) = w

\* str::starts_with
starts_with(w, prefix) ==
    Len(prefix) <= Len(w) /\ SubSeq(w, 1, Len(prefix)) = prefix

\* the candidates at a resolved command, completion.rs:158-162 and 169-170
CompletionsOf(cmd, to_complete) ==
    LET keep(w) == starts_with(w, to_complete)
    IN  IF get_possible_completions(cmd).kind = "PossibilityList"
        THEN PossibilityList(SelectSeq(get_possible_completions(cmd).words, keep))
        ELSE Description("Various possible")

\* the word being completed, completion.rs:146-155 (defined when there is one)
ToComplete(prev) ==
    IF is_whitespace(prev[Len(prev)]) THEN <<>> ELSE split(prev)[Len(split(prev))]

\* the completed components, completion.rs:138-155
Components(prev) ==
    IF is_whitespace(prev[Len(prev)]) THEN split(prev)
    ELSE SubSeq(split(prev), 1, Len(split(prev)) - 1)

\* complete, completion.rs:129-172
complete(prev, cmds) ==
    IF prev = <<>>
    THEN IF command_names(cmds) = <<>> THEN ResultNone
         ELSE PossibilityList(command_names(cmds))
    ELSE
      IF ~is_whitespace(prev[Len(prev)]) /\ split(prev) = <<>>
      THEN Panic   \* components.pop().unwrap() on an empty Vec
      ELSE
        LET to_complete == ToComplete(prev)
            components == Components(prev)
            k == active_command(components, cmds)
            keep(w) == starts_with(w, to_complete)
        IN  IF k # 0 THEN CompletionsOf(cmds[k], to_complete)
            ELSE IF components = <<>>
                 THEN PossibilityList(SelectSeq(command_names(cmds), keep))
                 ELSE PossibilityList(<<>>)

----------------------------------------------------------------------------
(* Inputs *)

SplitChars == {"A", " ", "\t", "\"", "'", "\\"}

\* the command lines of tests.rs:39-78
TestLines == {
    <<"A", " ", "B", " ", "C">>,
    <<"\"", "A", " ", "B", " ", "C", "\"">>,
    <<"'", "A", " ", "B", " ", "C", "'">>,
    <<"A", "\\", " ", "B", " ", "C">>,
    <<"A", " ", "\"", "'", "\"", " ", "B", " ", " ", "'", "\"", "'", " ",
      "\\", "\\", " ", "C">> }

CompleteChars == {"c", "s", "f", " ", "\""}

GEmpty == <<>>

\* a command with a flag taking one argument, a plain flag and a subcommand
GTree == << Command(<<"c">>,
                    << FlagWith(<<"f">>, <<ArbitraryArgument(<<"n">>)>>), Flag(<<"g">>) >>,
                    << Command(<<"s">>, << Flag(<<"x">>) >>, <<>>) >>) >>

\* a command with a free-form argument next to a flag
GArb == << Command(<<"c">>, << Flag(<<"f">>), ArbitraryArgument(<<"n">>) >>, <<>>),
           Command(<<"s">>, <<>>, <<>>) >>

\* flat commands sharing a prefix
GFlat == << Command(<<"c">>, <<>>, <<>>), Command(<<"c", "s">>, <<>>, <<>>),
            Command(<<"f">>, << Flag(<<"f", "f">>) >>, <<>>) >>

\* a free-form argument declared before a flag, in a command with a subcommand
GArbFirst == << Command(<<"s">>, << ArbitraryArgument(<<"n">>), Flag(<<"f">>) >>,
                        << Command(<<"c">>, <<>>, <<>>) >>) >>

Grammars == {GEmpty, GTree, GArb, GArbFirst, GFlat}

\* the grammar of the line editor's sessions: the example of prompt.rs:17-22
\* with one-letter names (print, echo, cat --help, exit)
GEdit == << Command(<<"p">>, <<>>, <<>>), Command(<<"e">>, <<>>, <<>>),
            Command(<<"c">>, << Flag(<<"h">>) >>, <<>>), Command(<<"x">>, <<>>, <<>>) >>

\* the grammar of SpecTab: one command whose flag is spelled with a typed character
GTab == << Command(<<"c">>, << Flag(<<"c">>) >>, <<>>) >>

----------------------------------------------------------------------------
(* Values of the variables a specification does not use *)

SplitOff ==
    /\ cmdline = <<>> /\ idx = 0 /\ parts = <<>> /\ act = <<>>
    /\ state = EscapingState_new /\ splitpc = "off"

CompleteOff == previous = <<>> /\ completion_result = Pending

NoOutcome ==
    [kind |-> "none", words |-> <<>>, cause |-> "none", raised |-> "none",
     error |-> "none"]

\* the std::io::Error values a failing read, write or flush may return
IoErrors == {"e1", "e2"}

\* impl From<std::io::Error> for Error, error.rs:7-11: the payload of IoError
Error_from(e) == e

\* Err(..) of read_commandline: raised is the io::Error the failed call
\* returned ("none" for Ctrl-C and Ctrl-D), error the payload of Error::IoError
Failure(kind, cause, e) ==
    [kind |-> kind, words |-> <<>>, cause |-> cause, raised |-> e,
     error |-> IF kind = "IoError" THEN Error_from(e) ELSE "none"]

\* the errors a return of this kind may have met
Raised(kind) == IF kind = "IoError" THEN IoErrors ELSE {"none"}

\* the terminal of a specification that does not observe it
NoTerminal == [text |-> <<>>, col |-> -1]

PromptOff ==
    /\ history = <<>> /\ history0 = <<>>
    /\ pc = "off" /\ raw = FALSE /\ line = <<>> /\ right_line = <<>>
    /\ history_offset = 0 /\ outcome = NoOutcome
    /\ navKeys = 0 /\ terminal = NoTerminal

----------------------------------------------------------------------------
(* SpecSplit: split(cmdline), one loop iteration per step *)

InitSplit ==
    /\ cmdline \in Strs(SplitChars, MaxLen) \cup TestLines
    /\ idx = 0 /\ parts = <<>> /\ act = <<>> /\ state = EscapingState_new
    /\ splitpc = "scan"
    /\ CompleteOff /\ commands = GEmpty /\ PromptOff

Scanner == [parts |-> parts, act |-> act, state |-> state]

\* the body of `for ch in cmdline.chars()`, split.rs:107-135
SplitStep ==
    /\ splitpc = "scan" /\ idx < Len(cmdline)
    /\ idx' = idx + 1
    /\ parts' = SplitChar(Scanner, cmdline[idx + 1]).parts
    /\ act' = SplitChar(Scanner, cmdline[idx + 1]).act
    /\ state' = SplitChar(Scanner, cmdline[idx + 1]).state
    /\ UNCHANGED <<cmdline, splitpc, completeVars, commands, promptVars>>

\* the end of the loop and the return, split.rs:137-140
SplitEnd ==
    /\ splitpc = "scan" /\ idx = Len(cmdline)
    /\ parts' = SplitFinish(Scanner)
    /\ splitpc' = "done"
    /\ UNCHANGED <<cmdline, idx, act, state, completeVars, commands, promptVars>>

NextSplit == SplitStep \/ SplitEnd

SpecSplit == InitSplit /\ [][NextSplit]_vars

----------------------------------------------------------------------------
(* SpecComplete: complete(previous, commands) *)

InitComplete ==
    /\ previous \in Strs(CompleteChars, MaxText)
    /\ commands \in Grammars
    /\ completion_result = Pending
    /\ SplitOff /\ PromptOff

Complete ==
    /\ completion_result = Pending /\ pc = "off" /\ splitpc = "off"
    /\ completion_result' = complete(previous, commands)
    /\ UNCHANGED <<previous, commands, splitVars, promptVars>>

NextComplete == Complete

SpecComplete == InitComplete /\ [][NextComplete]_vars

----------------------------------------------------------------------------
(* Prompt::read_commandline, prompt.rs:141-253 *)

EditChars == {"c", " "}

TabChars == {"c", " ", "\\"}

\* the histories a SpecTab read starts from
TabHistories == { <<>>, << <<"c">> >> }

PromptFrame == UNCHANGED <<splitVars, completeVars, commands>>

(* The terminal line the writes of prompt.rs act on: its text and the cursor
   column, from 0.  Lines are taken to be wider than any text written. *)

\* Prompt.prompt_text, prompt.rs:28
prompt_text == <<"$", " ">>

\* the prompt the completion output is followed by, prompt.rs:71 and 94
TabPrompt == <<">", " ">>

\* " ".repeat(n), prompt.rs:237, and the loop of prompt.rs:113-115
Blank(n) == [i \in 1..n |-> " "]

\* a fresh terminal line
NewTerminal == [text |-> <<>>, col |-> 0]

\* printable text written at the cursor
TermPut(t, s) ==
    LET padded == IF Len(t.text) < t.col THEN t.text \o Blank(t.col - Len(t.text))
                  ELSE t.text
    IN  [text |-> SubSeq(padded, 1, t.col) \o s
                  \o SubSeq(padded, t.col + Len(s) + 1, Len(padded)),
         col  |-> t.col + Len(s)]

\* "\r"
TermCR(t) == [t EXCEPT !.col = 0]

\* "\n" in raw mode: the next line, empty, at the same column
TermLF(t) == [t EXCEPT !.text = <<>>]

\* termion::cursor::Left(n), n > 0
TermLeft(t, n) == [t EXCEPT !.col = IF t.col > n THEN t.col - n ELSE 0]

\* termion::cursor::Right(n), n > 0
TermRight(t, n) == [t EXCEPT !.col = t.col + n]

\* blank cells at the end of the line show nothing
RECURSIVE TrimRight(_)
TrimRight(s) ==
    IF s # <<>> /\ s[Len(s)] = " " THEN TrimRight(SubSeq(s, 1, Len(s) - 1)) ELSE s

\* the terminal after a handler's writes, where the terminal is observed
Shown(t) ==
    IF terminal = NoTerminal THEN NoTerminal
    ELSE [text |-> TrimRight(t.text), col |-> t.col]

\* Prompt::reprint, prompt.rs:46-60
reprint(t, l, r) ==
    LET w == TermPut(TermCR(t), prompt_text \o l \o r)
    IN  IF r # <<>> THEN TermLeft(w, Len(r)) ELSE w

\* the writes of Prompt::replace_cmdline, prompt.rs:111-118
replace_cmdline(t, new_cmd_line, l, r) ==
    reprint(TermPut(TermCR(t), Blank(Len(prompt_text) + Len(l) + Len(r))),
            new_cmd_line, <<>>)

\* "\n\r Parameter help: ..\n\r> {line}" and "\n\r Completions: ..\n\r> {line}",
\* prompt.rs:71 and 92-96; the last line is what is left on the current line
TabOutput(t, l) == TermPut(TermCR(TermLF(t)), TabPrompt \o l)

\* progress of this read's keys along the sequence Up, Up, Down
NavAfter(key) ==
    CASE navKeys = 0 /\ key = "Up"   -> 1
      [] navKeys = 1 /\ key = "Up"   -> 2
      [] navKeys = 2 /\ key = "Down" -> 3
      [] OTHER -> -1

\* a plausible slip: the terminal mode is restored on the normal path only
EarlyReturnLeak(kind, cause) ==
    /\ pc' = "Returned" /\ raw' = raw
    /\ line' = <<>> /\ right_line' = <<>> /\ history_offset' = 0
    /\ \E e \in Raised(kind) : outcome' = Failure(kind, cause, e)

(* `return Err(..)` and a failing `?`: the locals are dropped, among them the
   RawTerminal guard bound at prompt.rs:143, which restores the terminal mode *)
EarlyReturn(kind, cause) ==
    /\ pc' = "Returned" /\ raw' = FALSE
    /\ line' = <<>> /\ right_line' = <<>> /\ history_offset' = 0
    /\ \E e \in Raised(kind) : outcome' = Failure(kind, cause, e)

\* a plausible slip: the result of the write is dropped and the loop goes on
HandledIgnoresFailure(key, ok, l, r, off, t) ==
    /\ navKeys' = NavAfter(key)
    /\ UNCHANGED <<history, history0>> /\ PromptFrame
    /\ pc' = "Editing" /\ raw' = raw /\ outcome' = outcome
    /\ line' = l /\ right_line' = r /\ history_offset' = off
    /\ terminal' = IF ok THEN Shown(t) ELSE terminal

\* a key handler: the new locals, or the I/O error of a failed write or flush
Handled(key, ok, l, r, off, t) ==
    /\ navKeys' = NavAfter(key)
    /\ UNCHANGED <<history, history0>> /\ PromptFrame
    /\ IF ok
       THEN /\ pc' = "Editing" /\ raw' = raw /\ outcome' = outcome
            /\ line' = l /\ right_line' = r /\ history_offset' = off
            /\ terminal' = Shown(t)
       ELSE EarlyReturn("IoError", "write") /\ terminal' = terminal

\* a key handler that writes nothing
Silent(key) == Handled(key, TRUE, line, right_line, history_offset, terminal)

\* stdout.lock().into_raw_mode()?, prompt.rs:142-145
StartRead(again) ==
    /\ pc = "Idle" \/ (pc = "Returned" /\ again)
    /\ navKeys' = 0
    /\ history' = history /\ history0' = history /\ PromptFrame
    /\ terminal' = terminal
    /\ line' = <<>> /\ right_line' = <<>> /\ history_offset' = 0
    /\ \E entered \in BOOLEAN :
        IF entered
        THEN pc' = "Prompting" /\ raw' = TRUE /\ outcome' = NoOutcome
        ELSE /\ pc' = "Returned" /\ raw' = raw     \* raw mode was not entered
             /\ \E e \in IoErrors : outcome' = Failure("IoError", "rawmode", e)

\* write!(stdout, prompt_text)?; flush()?; the locals, prompt.rs:146-150
WritePrompt(ok) ==
    /\ pc = "Prompting"
    /\ UNCHANGED <<history, history0, navKeys>> /\ PromptFrame
    /\ IF ok
       THEN /\ pc' = "Editing" /\ raw' = raw /\ outcome' = outcome
            /\ line' = <<>> /\ right_line' = <<>> /\ history_offset' = 0
            /\ terminal' = Shown(TermPut(terminal, prompt_text))
       ELSE EarlyReturn("IoError", "prompt") /\ terminal' = terminal

\* a plausible slip: the text right of the cursor is forgotten
FinalLineLeftOnly(l, r) == l

\* line.push_str(&right_line), prompt.rs:248
FinalLine(l, r) == l \o r

\* a plausible slip: the submitted line is recorded even when it is empty
HistoryPushAlways(h, l) == Append(h, l)

\* if !line.is_empty() { self.history.push(line.clone()) }, prompt.rs:249-251
HistoryPush(h, l) == IF l # <<>> THEN Append(h, l) ELSE h

\* the end of the key loop, prompt.rs:248-252
Submit(key) ==
    /\ navKeys' = NavAfter(key)
    /\ PromptFrame
    /\ pc' = "Returned" /\ raw' = FALSE
    /\ line' = FinalLine(line, right_line)
    /\ UNCHANGED <<right_line, history_offset, history0, terminal>>
    /\ history' = HistoryPush(history, line')
    /\ outcome' = [NoOutcome EXCEPT !.kind = "Ok", !.words = split(line'), !.cause = key]

\* Ok(Char('\n')) => break, prompt.rs:154
KeyEnter == pc = "Editing" /\ Submit("Enter")

\* stdin.keys() yields None: the for loop ends, prompt.rs:152
KeysEnd == pc = "Editing" /\ Submit("EOF")

\* the rebuilt command line, prompt.rs:82-86 and 226-230
RECURSIVE Rebuild(_)
Rebuild(words) ==
    IF words = <<>> THEN <<>> ELSE Head(words) \o <<" ">> \o Rebuild(Tail(words))

\* the line with its last word replaced, prompt.rs:76-86
CompletedLine(l, word) ==
    Rebuild(Append(IF ends_with_whitespace(l) THEN split(l)
                   ELSE SubSeq(split(l), 1, Len(split(l)) - 1), word))

\* Prompt::completion, prompt.rs:62-101, on Ok(Char('\t')), prompt.rs:155-158
KeyTab(ok, maxLine) ==
    /\ pc = "Editing"
    /\ LET res == complete(line, commands)
       IN  CASE res.kind = "panic" ->
                  /\ ok /\ pc' = "Panicked"
                  /\ raw' \in {FALSE, raw}    \* unwinding drops the guard, abort does not
                  /\ outcome' = [NoOutcome EXCEPT !.kind = "panic", !.cause = "Tab"]
                  /\ navKeys' = NavAfter("Tab")
                  /\ UNCHANGED <<line, right_line, history_offset, history, history0,
                                 terminal>>
                  /\ PromptFrame
             [] res.kind = "None" -> ok /\ Silent("Tab")
             [] res.kind = "Description" ->
                  Handled("Tab", ok, line, right_line, history_offset,
                          TabOutput(terminal, line))
             [] res.kind = "PossibilityList" /\ Len(res.words) = 1 ->
                  /\ Len(CompletedLine(line, res.words[1])) + Len(right_line) <= maxLine
                  /\ Handled("Tab", ok, CompletedLine(line, res.words[1]), right_line,
                             history_offset,
                             reprint(terminal, CompletedLine(line, res.words[1]),
                                     right_line))
             [] res.kind = "PossibilityList" /\ Len(res.words) > 1 ->
                  Handled("Tab", ok, line, right_line, history_offset,
                          TabOutput(terminal, line))
             [] res.kind = "PossibilityList" /\ Len(res.words) = 0 ->
                  ok /\ Silent("Tab")

\* Ok(Char(ch)), prompt.rs:159-162
KeyChar(ch, ok, maxLine) ==
    /\ pc = "Editing" /\ Len(line) + Len(right_line) < maxLine
    /\ Handled("Char", ok, Append(line, ch), right_line, history_offset,
               reprint(terminal, Append(line, ch), right_line))

\* a plausible slip: the character is put behind right, not in front of it
KeyLeftAppends(ok) ==
    /\ pc = "Editing"
    /\ IF line # <<>>
       THEN Handled("Left", ok, SubSeq(line, 1, Len(line) - 1),
                    Append(right_line, line[Len(line)]), history_offset,
                    TermLeft(terminal, 1))
       ELSE ok /\ Silent("Left")

\* Ok(Key::Left), prompt.rs:163-169
KeyLeft(ok) ==
    /\ pc = "Editing"
    /\ IF line # <<>>
       THEN Handled("Left", ok, SubSeq(line, 1, Len(line) - 1),
                    <<line[Len(line)]>> \o right_line, history_offset,
                    TermLeft(terminal, 1))
       ELSE ok /\ Silent("Left")

\* Ok(Key::Right), prompt.rs:170-176
KeyRight(ok) ==
    /\ pc = "Editing"
    /\ IF right_line # <<>>
       THEN Handled("Right", ok, Append(line, Head(right_line)), Tail(right_line),
                    history_offset, TermRight(terminal, 1))
       ELSE ok /\ Silent("Right")

\* a plausible slip: the offset counts from the oldest entry
HistoryGetOldestFirst(h, off) == h[off]

\* self.history.get(self.history.len() - history_offset), prompt.rs:181 and 200
HistoryGet(h, off) == h[Len(h) - off + 1]

\* a plausible slip: the selected entry replaces left only
KeyUpKeepsRight(ok) ==
    /\ pc = "Editing"
    /\ IF history_offset < Len(history)
       THEN Handled("Up", ok, HistoryGet(history, history_offset + 1), right_line,
                    history_offset + 1,
                    replace_cmdline(terminal, HistoryGet(history, history_offset + 1),
                                    line, right_line))
       ELSE ok /\ Silent("Up")

\* Ok(Key::Up), prompt.rs:177-191, with replace_cmdline, prompt.rs:104-120
KeyUp(ok) ==
    /\ pc = "Editing"
    /\ IF history_offset < Len(history)
       THEN Handled("Up", ok, HistoryGet(history, history_offset + 1), <<>>,
                    history_offset + 1,
                    replace_cmdline(terminal, HistoryGet(history, history_offset + 1),
                                    line, right_line))
       ELSE ok /\ Silent("Up")

\* a plausible slip: leaving the history empties left only
KeyDownKeepsRight(ok) ==
    /\ pc = "Editing"
    /\ IF history_offset = 1
       THEN Handled("Down", ok, <<>>, right_line, 0,
                    replace_cmdline(terminal, <<>>, line, right_line))
       ELSE IF history_offset > 1
       THEN Handled("Down", ok, HistoryGet(history, history_offset - 1), <<>>,
                    history_offset - 1,
                    replace_cmdline(terminal, HistoryGet(history, history_offset - 1),
                                    line, right_line))
       ELSE ok /\ Silent("Down")

\* Ok(Key::Down), prompt.rs:192-210
KeyDown(ok) ==
    /\ pc = "Editing"
    /\ IF history_offset = 1
       THEN Handled("Down", ok, <<>>, <<>>, 0,
                    replace_cmdline(terminal, <<>>, line, right_line))
       ELSE IF history_offset > 1
       THEN Handled("Down", ok, HistoryGet(history, history_offset - 1), <<>>,
                    history_offset - 1,
                    replace_cmdline(terminal, HistoryGet(history, history_offset - 1),
                                    line, right_line))
       ELSE ok /\ Silent("Down")

\* a plausible slip: the interrupted line is recorded like a submitted one
KeyCtrlCSaves ==
    /\ pc = "Editing" /\ EarlyReturn("CtrlC", "CtrlC")
    /\ navKeys' = NavAfter("CtrlC")
    /\ history' = HistoryPush(history, line \o right_line)
    /\ UNCHANGED <<history0, terminal>> /\ PromptFrame

\* Ok(Ctrl('c')), prompt.rs:211
KeyCtrlC ==
    /\ pc = "Editing" /\ EarlyReturn("CtrlC", "CtrlC")
    /\ navKeys' = NavAfter("CtrlC")
    /\ UNCHANGED <<history, history0, terminal>> /\ PromptFrame

\* Ok(Ctrl('d')), prompt.rs:212
KeyCtrlD ==
    /\ pc = "Editing" /\ EarlyReturn("CtrlD", "CtrlD")
    /\ navKeys' = NavAfter("CtrlD")
    /\ UNCHANGED <<history, history0, terminal>> /\ PromptFrame

\* Ok(Key::Backspace), prompt.rs:213-218
KeyBackspace(ok) ==
    /\ pc = "Editing"
    /\ IF line # <<>>
       THEN Handled("Backspace", ok, SubSeq(line, 1, Len(line) - 1), right_line,
                    history_offset,
                    TermLeft(TermPut(TermLeft(terminal, 1), <<" ">>), 1))
       ELSE ok /\ Silent("Backspace")

\* the wipe of prompt.rs:231-239 followed by the reprint of prompt.rs:241
WordErased(t, old, new, r) ==
    reprint(IF Len(new) < Len(old)
            THEN TermPut(TermLeft(t, Len(old) - Len(new)), Blank(Len(old)))
            ELSE t,
            new, r)

\* a plausible slip: the line is rebuilt from all its words, none dropped
KeyAltBackspaceKeepsWords(ok) ==
    /\ pc = "Editing"
    /\ IF split(line) # <<>>
       THEN Handled("AltBackspace", ok, Rebuild(split(line)), right_line,
                    history_offset,
                    WordErased(terminal, line, Rebuild(split(line)), right_line))
       ELSE ok /\ Silent("AltBackspace")

\* Ok(Alt('\u{7f}')), prompt.rs:219-243
KeyAltBackspace(ok) ==
    /\ pc = "Editing"
    /\ IF split(line) # <<>>
       THEN Handled("AltBackspace", ok,
                    Rebuild(SubSeq(split(line), 1, Len(split(line)) - 1)),
                    right_line, history_offset,
                    WordErased(terminal, line,
                               Rebuild(SubSeq(split(line), 1, Len(split(line)) - 1)),
                               right_line))
       ELSE ok /\ Silent("AltBackspace")

\* Ok(_) => {}, prompt.rs:244
KeyOther == pc = "Editing" /\ Silent("Other")

\* Err(e) => return Err(Error::IoError(e)), prompt.rs:245
KeyErr ==
    /\ pc = "Editing" /\ EarlyReturn("IoError", "Err")
    /\ navKeys' = NavAfter("Err")
    /\ UNCHANGED <<history, history0, terminal>> /\ PromptFrame

----------------------------------------------------------------------------
(* Spec: a session of reads with Prompt::new(prompt, GEdit) *)

\* Prompt::new, prompt.rs:38-44
Init ==
    /\ commands = GEdit /\ history = <<>> /\ history0 = history
    /\ pc = "Idle" /\ raw = FALSE /\ line = <<>> /\ right_line = <<>>
    /\ history_offset = 0 /\ outcome = NoOutcome
    /\ navKeys = 0 /\ terminal = NoTerminal
    /\ SplitOff /\ CompleteOff

Next ==
    \/ StartRead(Len(history) < MaxHistory)
    \/ \E ok \in BOOLEAN : WritePrompt(ok)
    \/ KeyEnter
    \/ KeysEnd
    \/ \E ok \in BOOLEAN : KeyTab(ok, MaxLine)
    \/ \E ch \in EditChars, ok \in BOOLEAN : KeyChar(ch, ok, MaxLine)
    \/ \E ok \in BOOLEAN : KeyLeft(ok)
    \/ \E ok \in BOOLEAN : KeyRight(ok)
    \/ \E ok \in BOOLEAN : KeyUp(ok)
    \/ \E ok \in BOOLEAN : KeyDown(ok)
    \/ KeyCtrlC
    \/ KeyCtrlD
    \/ \E ok \in BOOLEAN : KeyBackspace(ok)
    \/ \E ok \in BOOLEAN : KeyAltBackspace(ok)
    \/ KeyOther
    \/ KeyErr

Spec == Init /\ [][Next]_vars

----------------------------------------------------------------------------
(* SpecTab: one read over the quoting alphabet *)

InitTab ==
    /\ commands = GTab /\ history \in TabHistories /\ history0 = history
    /\ pc = "Idle" /\ raw = FALSE /\ line = <<>> /\ right_line = <<>>
    /\ history_offset = 0 /\ outcome = NoOutcome
    /\ navKeys = 0 /\ terminal = NoTerminal
    /\ SplitOff /\ CompleteOff

NextTab ==
    \/ StartRead(FALSE)
    \/ \E ok \in BOOLEAN : WritePrompt(ok)
    \/ KeyEnter
    \/ KeysEnd
    \/ \E ok \in BOOLEAN : KeyTab(ok, MaxTabLine)
    \/ \E ch \in TabChars, ok \in BOOLEAN : KeyChar(ch, ok, MaxTabLine)
    \/ \E ok \in BOOLEAN : KeyLeft(ok)
    \/ \E ok \in BOOLEAN : KeyRight(ok)
    \/ \E ok \in BOOLEAN : KeyUp(ok)
    \/ \E ok \in BOOLEAN : KeyDown(ok)
    \/ KeyCtrlC
    \/ KeyCtrlD
    \/ \E ok \in BOOLEAN : KeyBackspace(ok)
    \/ \E ok \in BOOLEAN : KeyAltBackspace(ok)
    \/ KeyOther
    \/ KeyErr

SpecTab == InitTab /\ [][NextTab]_vars

(* SpecScreen: one read with the terminal line observed *)

\* grammars with one candidate (GTab), several candidates and a hint (GArb)
ScreenGrammars == {GTab, GArb}

InitScreen ==
    /\ commands \in ScreenGrammars /\ history \in TabHistories /\ history0 = history
    /\ pc = "Idle" /\ raw = FALSE /\ line = <<>> /\ right_line = <<>>
    /\ history_offset = 0 /\ outcome = NoOutcome
    /\ navKeys = 0 /\ terminal = NewTerminal
    /\ SplitOff /\ CompleteOff

NextScreen ==
    \/ StartRead(FALSE)
    \/ \E ok \in BOOLEAN : WritePrompt(ok)
    \/ KeyEnter
    \/ KeysEnd
    \/ \E ok \in BOOLEAN : KeyTab(ok, MaxScreenLine)
    \/ \E ch \in EditChars, ok \in BOOLEAN : KeyChar(ch, ok, MaxScreenLine)
    \/ \E ok \in BOOLEAN : KeyLeft(ok)
    \/ \E ok \in BOOLEAN : KeyRight(ok)
    \/ \E ok \in BOOLEAN : KeyUp(ok)
    \/ \E ok \in BOOLEAN : KeyDown(ok)
    \/ KeyCtrlC
    \/ KeyCtrlD
    \/ \E ok \in BOOLEAN : KeyBackspace(ok)
    \/ \E ok \in BOOLEAN : KeyAltBackspace(ok)
    \/ KeyOther
    \/ KeyErr

SpecScreen == InitScreen /\ [][NextScreen]_vars

----------------------------------------------------------------------------
(* Claims about complete (SpecComplete) *)

Completed == completion_result # Pending

\* C1: complete is total: for every text and every grammar it returns None,
\* Description or PossibilityList and never panics.
C1_Total ==
    Completed => completion_result.kind \in {"None", "Description", "PossibilityList"}

\* C6: when the completed components are a top-level command followed by one of
\* its subcommands, complete offers the subcommand's own flags and subcommands,
\* filtered by the word in progress.
C6_Descends ==
    \A i \in 1..Len(commands) : \A j \in 1..Len(commands[i].subcommands) :
        ( /\ Completed /\ previous # <<>> /\ completion_result # Panic
          /\ Components(previous) = <<commands[i].name, commands[i].subcommands[j].name>> )
        => completion_result =
               CompletionsOf(commands[i].subcommands[j], ToComplete(previous))

\* C7: directly after a flag that declares mandatory arguments, the position of
\* its first argument is not completed with the command's flags and subcommands.
C7_FlagConsumes ==
    \A i \in 1..Len(commands) : \A a \in 1..Len(commands[i].args) :
        ( /\ Completed /\ previous # <<>> /\ completion_result # Panic
          /\ commands[i].args[a].kind = "Flag"
          /\ Len(commands[i].args[a].arguments) >= 1
          /\ Components(previous) = <<commands[i].name, commands[i].args[a].name>> )
        => ~ ( /\ completion_result.kind = "PossibilityList"
               /\ \E w \in 1..Len(completion_result.words) :
                    \E n \in 1..Len(get_possible_completions(commands[i]).words) :
                        completion_result.words[w] =
                            get_possible_completions(commands[i]).words[n] )

\* the word in progress at the end of a text
InProgressWord(text) ==
    IF text = <<>> \/ text[Len(text)] \in {" ", "\t"} THEN <<>>
    ELSE split(text)[Len(split(text))]

IsPrefixOf(p, w) == Len(p) <= Len(w) /\ \A i \in 1..Len(p) : w[i] = p[i]

\* C15: every word of a PossibilityList returned by complete(text, grammar)
\* starts with the word in progress of text (empty when text is empty or ends
\* in whitespace, otherwise the last word of split(text)), character for
\* character.
C15_PrefixProperty ==
    (Completed /\ completion_result.kind = "PossibilityList")
    => \A i \in 1..Len(completion_result.words) :
           IsPrefixOf(InProgressWord(previous), completion_result.words[i])

\* the word in progress kept two of three command names
C15_Witness ==
    /\ Completed /\ commands = GFlat /\ previous = <<"c">>
    /\ completion_result = PossibilityList(<< <<"c">>, <<"c", "s">> >>)

\* C16: when the command complete resolves declares at least one
\* ArbitraryArgument, the result is Description and never a PossibilityList,
\* whatever else the command declares, in whatever order, and whatever the word
\* in progress.
C16_ArbitraryShortCircuit ==
    (Completed /\ previous # <<>> /\ completion_result # Panic)
    => LET k == active_command(Components(previous), commands)
       IN  ( /\ k # 0
             /\ \E a \in 1..Len(commands[k].args) :
                    commands[k].args[a].kind = "ArbitraryArgument" )
           => completion_result.kind = "Description"

\* a flag declared before the free-form argument, and a word in progress
C16_Witness ==
    /\ Completed /\ commands = GArb /\ previous = <<"c", " ", "f">>
    /\ completion_result.kind = "Description"

\* C17: complete("", grammar) is None exactly when the grammar has no
\* top-level command; otherwise it is the PossibilityList of all top-level
\* command names, unfiltered and in declaration order.
C17_EmptyText ==
    (Completed /\ previous = <<>>)
    => /\ completion_result.kind = "None" <=> commands = <<>>
       /\ commands # <<>>
            => completion_result =
                   PossibilityList([i \in 1..Len(commands) |-> commands[i].name])

\* the empty text listed the three commands of the flat grammar
C17_Witness ==
    /\ Completed /\ previous = <<>> /\ commands = GFlat
    /\ completion_result.words = << <<"c">>, <<"c", "s">>, <<"f">> >>

\* no completed component of the text is the name of a top-level command
NoComponentMatches ==
    \A i \in 1..Len(Components(previous)) : \A j \in 1..Len(commands) :
        Components(previous)[i] # commands[j].name

\* C21: when no completed component of the text equals a command name, then
\* with no completed component complete returns the top-level command names
\* filtered by the word in progress, and with at least one completed component
\* it returns the PossibilityList of the empty list.
C21_NoMatchFallback ==
    (Completed /\ previous # <<>> /\ NoComponentMatches)
    => IF Components(previous) = <<>>
       THEN /\ completion_result.kind = "PossibilityList"
            /\ LET keep(w) == IsPrefixOf(InProgressWord(previous), w)
               IN  completion_result.words =
                       SelectSeq([j \in 1..Len(commands) |-> commands[j].name], keep)
       ELSE completion_result = PossibilityList(<<>>)

\* the command named by the last completed component that names one, 0 if none
LastMatching(comps, cmds) ==
    LET M == {i \in 1..Len(comps) : \E j \in 1..Len(cmds) : comps[i] = cmds[j].name}
    IN  IF M = {} THEN 0
        ELSE LET i == CHOOSE m \in M : \A n \in M : n <= m
             IN  CHOOSE j \in 1..Len(cmds) :
                     /\ cmds[j].name = comps[i]
                     /\ \A k \in (j + 1)..Len(cmds) : cmds[k].name # comps[i]

\* C22: when several completed components each equal a command name, the
\* candidates are those of the command matched by the last such component;
\* earlier matches are overwritten and components matching nothing are skipped
\* without clearing an earlier match.
C22_LastMatchWins ==
    (Completed /\ previous # <<>>)
    => LET k == LastMatching(Components(previous), commands)
       IN  k # 0 => completion_result = CompletionsOf(commands[k], ToComplete(previous))

\* s then c: the later c, with its free-form argument, decides
C22_Witness ==
    /\ Completed /\ commands = GArb /\ previous = <<"s", " ", "c", " ">>
    /\ completion_result.kind = "Description"

----------------------------------------------------------------------------
(* Claims about split (SpecSplit) *)

HasChar(s, C) == \E i \in 1..Len(s) : s[i] \in C

\* the words joined by single spaces
RECURSIVE JoinWithSingleSpace(_)
JoinWithSingleSpace(ws) ==
    IF ws = <<>> THEN <<>>
    ELSE IF Len(ws) = 1 THEN ws[1]
    ELSE ws[1] \o <<" ">> \o JoinWithSingleSpace(Tail(ws))

\* C4 as stated: for every s without single or double quotes (backslashes
\* allowed), split(join_with_single_space(split(s))) = split(s).
C4_Idempotent_Original ==
    (splitpc = "done" /\ ~HasChar(cmdline, {"\"", "'"}))
        => split(JoinWithSingleSpace(parts)) = parts

\* C4 amended: for every s without single quotes, double quotes and backslashes,
\* split(join_with_single_space(split(s))) = split(s).
C4_Idempotent ==
    (splitpc = "done" /\ ~HasChar(cmdline, {"\"", "'", "\\"}))
        => split(JoinWithSingleSpace(parts)) = parts

C4_Witness ==
    /\ splitpc = "done" /\ ~HasChar(cmdline, {"\"", "'", "\\"})
    /\ Len(parts) >= 2 /\ JoinWithSingleSpace(parts) # cmdline

BackslashStep ==
    splitpc = "scan" /\ idx' = idx + 1 /\ cmdline[idx + 1] = "\\"

\* C5 as stated: a backslash is emitted into the current word iff the scanner is
\* inside a double-quoted or a single-quoted region; outside both it is consumed
\* and arms the escape.
C5_Backslash_Original ==
    [][BackslashStep =>
         /\ (act' = Append(act, "\\")) <=> (state.double_quote \/ state.single_quote)
         /\ ~(state.double_quote \/ state.single_quote)
                => (act' = act /\ state'.backslash)]_vars

\* C5 amended: a backslash is emitted into the current word iff the scanner is
\* inside a double-quoted region or right after an active backslash; otherwise
\* it is consumed (not emitted) and arms a one-character escape.
C5_Backslash ==
    [][BackslashStep =>
         /\ (act' = Append(act, "\\")) <=> (state.double_quote \/ state.backslash)
         /\ ~(state.double_quote \/ state.backslash)
                => (act' = act /\ state'.backslash)]_vars

\* a backslash was consumed inside a single-quoted region, and one was emitted
\* outside both quote regions
C5_Witness ==
    /\ splitpc = "scan" /\ idx = 4
    /\ SubSeq(cmdline, 1, 4) = <<"'", "\\", "\\", "\\">>
    /\ act = <<"\\">> /\ state.single_quote /\ state.backslash

----------------------------------------------------------------------------
(* Claims about Prompt::read_commandline (Spec, SpecTab) *)

\* C2: when the key source ends while the read is editing, read_commandline
\* ends with the end-of-input outcome, the outcome of Ctrl-D.
C2_EofIsEndOfInput ==
    (pc = "Returned" /\ outcome.cause = "EOF") => outcome.kind = "CtrlD"

UpUpDownDone == pc = "Editing" /\ navKeys = 3 /\ Len(history) = 2

\* C3 as stated: with History = [A, B], the keys Up, Up, Down of a read leave
\* the buffer equal to A, the older entry, and right empty.
C3_UpUpDown_Original ==
    UpUpDownDone => (line = history[1] /\ right_line = <<>>)

\* C3 amended: with History = [A, B], the keys Up, Up, Down of a read leave the
\* buffer equal to B, the newer entry, and right empty.
C3_UpUpDown ==
    UpUpDownDone => (line = history[2] /\ right_line = <<>>)

C3_Witness ==
    UpUpDownDone /\ history[1] # history[2] /\ line = history[2] /\ history_offset = 1

TabStep == \E ok \in BOOLEAN : KeyTab(ok, MaxTabLine)

\* C8: on Tab with exactly one candidate c, the new left tokenises to the words
\* completed before the word in progress followed by c, ends with c and exactly
\* one space, and right is unchanged.
C8_TabReplacesLastWord ==
    [][( /\ TabStep /\ pc' = "Editing"
         /\ complete(line, commands).kind = "PossibilityList"
         /\ Len(complete(line, commands).words) = 1 )
       => LET c == complete(line, commands).words[1]
              before == IF line = <<>> THEN <<>> ELSE Components(line)
          IN  /\ split(line') = Append(before, c)
              /\ Len(line') > Len(c)
              /\ SubSeq(line', Len(line') - Len(c), Len(line')) = c \o <<" ">>
              /\ right_line' = right_line]_vars

\* C9: raw mode is entered before the first key is read, and however the read
\* ends (Enter, Ctrl-C, Ctrl-D, key source closed, I/O failure) the terminal is
\* out of raw mode once read_commandline has returned.
C9_RawModeScoped ==
    /\ pc \in {"Prompting", "Editing"} => raw
    /\ pc \in {"Idle", "Returned"} => ~raw

\* a read that entered raw mode and handled a key ended on a failed write
C9_Witness ==
    /\ pc = "Returned" /\ outcome.kind = "IoError" /\ outcome.cause = "write"
    /\ navKeys # 0 /\ ~raw

\* C10: on Enter the returned words are split(left + right), whatever the
\* cursor position.
C10_SubmitsWholeLine ==
    [][(pc = "Editing" /\ pc' = "Returned" /\ outcome'.cause = "Enter")
       => ( /\ outcome'.kind = "Ok"
            /\ outcome'.words = split(line \o right_line) )]_vars

\* Enter with the cursor inside a line whose right part holds a word of its own
C10_Witness ==
    /\ pc = "Returned" /\ outcome.cause = "Enter"
    /\ right_line # <<>> /\ Len(line) > Len(right_line)
    /\ Len(outcome.words) >= 2
    /\ split(SubSeq(line, 1, Len(line) - Len(right_line))) # outcome.words

\* C11: the history is append-only.  A read ended by Enter appends exactly
\* left + right as the newest entry when that line is non-empty (duplicates and
\* whitespace-only lines included, untrimmed) and appends nothing when it is
\* empty; no step changes or reorders an earlier entry.
C11_HistoryAppendOnly ==
    [][ /\ (pc = "Editing" /\ pc' = "Returned" /\ outcome'.cause = "Enter")
           => LET whole == line \o right_line
              IN  IF whole # <<>>
                  THEN history' = Append(history, whole)
                  ELSE history' = history
        /\ Len(history') >= Len(history)
        /\ SubSeq(history', 1, Len(history)) = history ]_vars

\* Enter recorded a duplicate of the previous entry after a whitespace-only one
C11_Witness ==
    /\ pc = "Returned" /\ outcome.cause = "Enter"
    /\ Len(history) = 3 /\ Len(history0) = 2
    /\ history[1] = <<" ">> /\ history[2] = history[3]

\* C12: Ctrl-C ends the read at once with Interrupted and Ctrl-D with
\* EndOfInput; the history is then exactly what it was when the read started,
\* and a returned read consumes no further key.
C12_InterruptEndsRead ==
    [][ /\ \A k \in {"CtrlC", "CtrlD"} :
              (pc = "Editing" /\ outcome'.cause = k)
              => ( /\ pc' = "Returned" /\ outcome'.kind = k /\ outcome'.words = <<>>
                   /\ history' = history0 /\ history0' = history0 )
        /\ pc = "Returned"
              => (pc' \in {"Prompting", "Returned"} /\ history' = history) ]_vars

\* Ctrl-C ended a later read, with two lines recorded by the reads before it
C12_Witness ==
    /\ pc = "Returned" /\ outcome.kind = "CtrlC" /\ outcome.cause = "CtrlC"
    /\ Len(history) = 2 /\ history = history0

\* C13: no element of split(s) is the empty string; a text that is empty or
\* holds only whitespace splits into the empty sequence.
C13_NoEmptyWord ==
    /\ \A i \in 1..Len(parts) : parts[i] # <<>>
    /\ (splitpc = "done" /\ \A i \in 1..Len(cmdline) : is_whitespace(cmdline[i]))
          => parts = <<>>

\* an empty quote pair and a trailing backslash leave no word behind
C13_Witness ==
    /\ splitpc = "done" /\ cmdline = <<"\"", "\"", " ", "\\">> /\ parts = <<>>

\* C14: a whitespace character is a word boundary exactly when it is not
\* whitespace-escaped; inside quotes or after a backslash it is emitted into
\* the word.  The delimiters are stripped: a quoted run "w" or 'w', w a word
\* free of quotes and backslashes, yields the single word w, and A\ B C yields
\* the words "A B" and "C".
C14_WhitespaceBoundary ==
    [][ /\ (splitpc = "scan" /\ idx' = idx + 1 /\ is_whitespace(cmdline[idx + 1]))
           => IF state.single_quote \/ state.double_quote \/ state.backslash
              THEN act' = Append(act, cmdline[idx + 1]) /\ parts' = parts
              ELSE /\ act' = <<>>
                   /\ parts' = IF act # <<>> THEN Append(parts, act) ELSE parts
        /\ splitpc' = "done"
           => /\ \A q \in {"\"", "'"} :
                    ( /\ Len(cmdline) >= 3
                      /\ cmdline[1] = q /\ cmdline[Len(cmdline)] = q
                      /\ ~HasChar(SubSeq(cmdline, 2, Len(cmdline) - 1),
                                  {"\"", "'", "\\"}) )
                    => parts' = << SubSeq(cmdline, 2, Len(cmdline) - 1) >>
              /\ cmdline = <<"A", "\\", " ", "B", " ", "C">>
                    => parts' = << <<"A", " ", "B">>, <<"C">> >> ]_vars

\* the backslash-escaped blank stayed inside the first of two words
C14_Witness ==
    /\ splitpc = "done" /\ cmdline = <<"A", "\\", " ", "B", " ", "C">>
    /\ parts = << <<"A", " ", "B">>, <<"C">> >>

\* the quote flag of q
QuoteFlag(st, q) == IF q = "\"" THEN st.double_quote ELSE st.single_quote

\* the scanner has just read a backslash and then q, and was inside the region
\* of q, with no escape pending, before the two
EscapedQuoteInRegion(q) ==
    /\ idx >= 2 /\ cmdline[idx - 1] = "\\" /\ cmdline[idx] = q
    /\ LET before == process(SubSeq(cmdline, 1, idx - 2))
       IN  QuoteFlag(before, q) /\ ~before.backslash

\* C19, as stated: inside a quoted region a backslash followed by the region's
\* quote character still closes the region (quote flag false afterwards).
C19_BackslashInQuotes_Original ==
    \A q \in {"\"", "'"} : EscapedQuoteInRegion(q) => ~QuoteFlag(state, q)

\* C19, amended: inside a quoted region a backslash followed by the region's
\* quote character does not close the region: the quote flag is still true
\* afterwards and the backslash flag is cleared.
C19_BackslashInQuotes ==
    \A q \in {"\"", "'"} :
        EscapedQuoteInRegion(q) => (QuoteFlag(state, q) /\ ~state.backslash)

\* quote, backslash, the same quote: the region is still open
C19_Witness ==
    /\ idx = 3 /\ SubSeq(cmdline, 1, 3) = <<"\"", "\\", "\"">>
    /\ state.double_quote /\ ~state.backslash

AltBackspaceStep == \E ok \in BOOLEAN : KeyAltBackspace(ok)

\* C20: word-erase drops exactly the last word: the new left tokenises to the
\* words of the old left without the last one, in order, and right and the
\* history are unchanged.
C20_WordEraseDropsLast ==
    [][(AltBackspaceStep /\ pc' = "Editing")
       => ( /\ split(line') = IF split(line) = <<>> THEN <<>>
                              ELSE SubSeq(split(line), 1, Len(split(line)) - 1)
            /\ right_line' = right_line
            /\ history' = history )]_vars

\* the terminal line shows prompt + left + right, the cursor between the two
InSync(t, l, r) ==
    /\ t.text = TrimRight(prompt_text \o l \o r)
    /\ t.col = Len(prompt_text) + Len(l)

\* a handled key that changed the text of left + right
TextChangeStep ==
    /\ \/ \E ch \in EditChars, ok \in BOOLEAN : KeyChar(ch, ok, MaxScreenLine)
       \/ \E ok \in BOOLEAN : KeyBackspace(ok)
       \/ \E ok \in BOOLEAN : KeyAltBackspace(ok)
       \/ \E ok \in BOOLEAN : KeyTab(ok, MaxScreenLine)
       \/ \E ok \in BOOLEAN : KeyUp(ok)
       \/ \E ok \in BOOLEAN : KeyDown(ok)
    /\ pc' = "Editing"
    /\ line' \o right_line' # line \o right_line

\* C18: after every key that changes the text of left or right (printable
\* character, Backspace, word-erase, single-candidate Tab, Up, Down), and
\* before the next key is read, the terminal line shows exactly
\* prompt + left + right, with no stale character, and the cursor stands at
\* the boundary of left and right.
C18_RedrawAfterChange ==
    [][(TextChangeStep /\ InSync(terminal, line, right_line))
       => InSync(terminal', line', right_line')]_vars

\* C23: in every EscapingState reached by stepping from the initial state,
\* single_quote and double_quote are never both true; a quote character
\* toggles its flag only when it is escaped neither by the other quote nor by
\* an active backslash, and no other character toggles it; a backslash followed
\* by a double quote leaves all three flags false.
C23_QuotesExclusive ==
    [][(splitpc = "scan" /\ idx' = idx + 1)
       => LET ch == cmdline[idx + 1]
          IN  /\ ~(state'.single_quote /\ state'.double_quote)
              /\ state'.double_quote # state.double_quote
                    => (ch = "\"" /\ ~state.single_quote /\ ~state.backslash)
              /\ state'.single_quote # state.single_quote
                    => (ch = "'" /\ ~state.double_quote /\ ~state.backslash)
              /\ (idx = 1 /\ cmdline[1] = "\\" /\ ch = "\"")
                    => state' = EscapingState_new ]_vars

\* a single quote met inside an open double-quoted region did not open its own
C23_Witness ==
    /\ idx = 2 /\ SubSeq(cmdline, 1, 2) = <<"\"", "'">>
    /\ state.double_quote /\ ~state.single_quote

UpStep == \E ok \in BOOLEAN : KeyUp(ok)

DownStep == \E ok \in BOOLEAN : KeyDown(ok)

\* the offset stays within the history, is 0 when a read starts, and Up at the
\* oldest entry changes nothing
OffsetBounded ==
    /\ pc' \in {"Prompting", "Editing"}
          => (0 <= history_offset' /\ history_offset' <= Len(history'))
    /\ (pc = "Prompting" /\ pc' = "Editing") => history_offset' = 0
    /\ (UpStep /\ history_offset = Len(history))
          => ( /\ history_offset' = history_offset
               /\ line' = line /\ right_line' = right_line )

\* left is the k-th most recent entry and right is empty
ShowsEntry(k, l, r) == l = history[Len(history) + 1 - k] /\ r = <<>>

\* C24, as stated: whenever an Up or Down leaves history_offset = k > 0, left
\* is the k-th most recent entry and right is empty.  Up is accepted in every
\* editing state and at history_offset = len(History) it leaves the state as it
\* is, so this asks of every editing state with history_offset = len(History)
\* > 0 that it shows that entry.
C24_OffsetSelects_Original ==
    (pc = "Editing" /\ history_offset > 0 /\ history_offset = Len(history))
    => ShowsEntry(history_offset, line, right_line)

\* C24, amended: as above, but left is the k-th most recent entry and right is
\* empty whenever an Up or Down moves history_offset to k > 0; an Up that finds
\* the offset at len(History) leaves an edited buffer as it is.
C24_OffsetSelects ==
    [][ /\ OffsetBounded
        /\ ( /\ UpStep \/ DownStep
             /\ pc' = "Editing" /\ history_offset' > 0
             /\ history_offset' # history_offset )
              => ShowsEntry(history_offset', line', right_line') ]_vars

\* a third read browsing at the older of two different entries
C24_Witness ==
    /\ pc = "Editing" /\ history_offset = 2 /\ Len(history) = 2
    /\ history[1] # history[2] /\ line = history[1] /\ right_line = <<>>

\* C25: Down at history_offset = 1 sets the offset to 0 and empties left and
\* right; Down at history_offset = 0 changes neither the offset nor left nor
\* right.
C25_DownLeavesHistory ==
    [][ /\ (DownStep /\ history_offset = 1 /\ pc' = "Editing")
              => (history_offset' = 0 /\ line' = <<>> /\ right_line' = <<>>)
        /\ (DownStep /\ history_offset = 0)
              => ( /\ pc' = "Editing" /\ history_offset' = 0
                   /\ line' = line /\ right_line' = right_line ) ]_vars

\* Up, a second Up at the only entry, then Down: an empty line again
C25_Witness ==
    /\ pc = "Editing" /\ navKeys = 3 /\ Len(history) = 1
    /\ history_offset = 0 /\ line = <<>> /\ right_line = <<>>

LeftStep == \E ok \in BOOLEAN : KeyLeft(ok)

RightStep == \E ok \in BOOLEAN : KeyRight(ok)

\* C26: Left and Right never change left + right, history_offset or the
\* history.  Left moves the last character of left to the front of right when
\* left is non-empty and changes nothing otherwise; Right moves the first
\* character of right to the end of left when right is non-empty and changes
\* nothing otherwise; so a Right after a Left restores (left, right).
C26_CursorMovesKeepText ==
    [][ /\ (LeftStep \/ RightStep) => history' = history
        /\ ((LeftStep \/ RightStep) /\ pc' = "Editing")
              => ( /\ line' \o right_line' = line \o right_line
                   /\ history_offset' = history_offset )
        /\ (LeftStep /\ pc' = "Editing")
              => IF line # <<>>
                 THEN /\ line' = SubSeq(line, 1, Len(line) - 1)
                      /\ right_line' = <<line[Len(line)]>> \o right_line
                      /\ Append(line', Head(right_line')) = line
                      /\ Tail(right_line') = right_line
                 ELSE line' = line /\ right_line' = right_line
        /\ (RightStep /\ pc' = "Editing")
              => IF right_line # <<>>
                 THEN /\ line' = Append(line, Head(right_line))
                      /\ right_line' = Tail(right_line)
                 ELSE line' = line /\ right_line' = right_line ]_vars

\* the cursor stands inside a line, between two different characters
C26_Witness ==
    /\ pc = "Editing" /\ Len(line) >= 2 /\ Len(right_line) >= 2
    /\ line[Len(line)] # right_line[1] /\ right_line[1] # right_line[2]

\* a read, write or flush of this read has failed
FailedStep ==
    \/ KeyErr
    \/ WritePrompt(FALSE)
    \/ \E ch \in EditChars : KeyChar(ch, FALSE, MaxLine)
    \/ KeyTab(FALSE, MaxLine)
    \/ KeyLeft(FALSE) \/ KeyRight(FALSE) \/ KeyUp(FALSE) \/ KeyDown(FALSE)
    \/ KeyBackspace(FALSE) \/ KeyAltBackspace(FALSE)

\* C27: when reading a key or writing or flushing to the terminal fails, the
\* read ends at once with the I/O-failure outcome carrying that same error;
\* nothing is retried, no later key is processed and the history is what it
\* was when the read started.
C27_IoFailureEndsRead ==
    [][ /\ FailedStep
              => ( /\ pc' = "Returned" /\ outcome'.kind = "IoError"
                   /\ outcome'.raised \in IoErrors
                   /\ outcome'.error = outcome'.raised
                   /\ history' = history /\ history' = history0 )
        /\ (pc = "Returned" /\ outcome.kind = "IoError")
              => pc' \in {"Prompting", "Returned"} ]_vars

\* a failed write ended a later read with its own error, the history kept
C27_Witness ==
    /\ pc = "Returned" /\ outcome.kind = "IoError" /\ outcome.cause = "write"
    /\ outcome.error = "e2" /\ Len(history) = 2 /\ history = history0

ScreenTabStep == \E ok \in BOOLEAN : KeyTab(ok, MaxScreenLine)

\* Tab has a hint to print: a Description or more than one candidate
TabHints ==
    LET res == complete(line, commands)
    IN  \/ res.kind = "Description"
        \/ res.kind = "PossibilityList" /\ Len(res.words) > 1

\* Tab has nothing to offer: None or an empty list
TabOffersNothing ==
    LET res == complete(line, commands)
    IN  \/ res.kind = "None"
        \/ res.kind = "PossibilityList" /\ Len(res.words) = 0

\* C28: on Tab with a Description or more than one candidate, the hint goes to
\* a fresh line and the input line is redrawn unchanged: left, right and the
\* history keep their values and the terminal line shows the configured
\* prompt followed by left + right, the cursor at the boundary of the two; on
\* None or an empty list nothing is written and nothing changes.
C28_TabHintRedraws ==
    [][ /\ (ScreenTabStep /\ pc' = "Editing" /\ TabHints)
              => ( /\ line' = line /\ right_line' = right_line
                   /\ history' = history
                   /\ InSync(terminal', line, right_line) )
        /\ (ScreenTabStep /\ TabOffersNothing)
              => ( /\ pc' = "Editing" /\ line' = line /\ right_line' = right_line
                   /\ history' = history /\ terminal' = terminal ) ]_vars

\* C29: word-erase makes progress: when left tokenises to at least one word,
\* Alt+Backspace leaves left strictly shorter; when left tokenises to no word,
\* it leaves left unchanged, so a left without words stays without words and
\* repeated presses reach one after at most len(left) of them.
C29_WordEraseProgress ==
    [][(AltBackspaceStep /\ pc' = "Editing")
       => IF split(line) # <<>>
          THEN Len(line') < Len(line)
          ELSE line' = line /\ split(line') = <<>> ]_vars

\* a left of two words, the first holding an escaped blank, ready to be erased
C29_Witness ==
    /\ pc = "Editing" /\ line = <<"c", "\\", " ", "c", " ", "c">>
    /\ right_line = <<>> /\ Len(split(line)) = 2

====
